---------------------------- MODULE Spec2Model ----------------------------
(***************************************************************************)
(* Declarative reconciliation engine of ansible-common-f5.                 *)
(*                                                                         *)
(* Two generations of the engine live in the repository:                   *)
(*   variant "base"  : ansible_common_f5/f5_base.py  (F5BaseObject,        *)
(*                     F5NamedBaseObject, F5UnnamedBaseObject) whose       *)
(*                     _update diffs with DeepDiff(ignore_order=True);     *)
(*   variant "bigip" : ansible_common_f5bigip/f5bigip.py                   *)
(*                     (F5BigIpBaseObject, F5BigIpObject,                  *)
(*                     F5BigIpUnnamedObject) whose _update diffs with      *)
(*                     format_value and set union / set difference.        *)
(*                                                                         *)
(* One flush() is modelled as a sequence of steps, one step per remote     *)
(* call (exists, read, create, update/modify, refresh, delete), so that    *)
(* the remote system can change between two calls of the engine.           *)
(*                                                                         *)
(* Python values are tagged records:                                       *)
(*   [t |-> "none"]                     None                               *)
(*   [t |-> "str",  s |-> <<chars>>]    a string, as its characters        *)
(*   [t |-> "bool", b |-> BOOLEAN]      True / False                       *)
(*   [t |-> "list", l |-> <<values>>]   a list                             *)
(*   [t |-> "set",  e |-> {values}]     a set (format_value's result)      *)
(* A dict (params, cparams, the attributes of a remote object) is a        *)
(* function whose DOMAIN is its key set.                                   *)
(***************************************************************************)
EXTENDS Naturals, Sequences, FiniteSets, TLC

(***************************************************************************)
(* Bounds of the model.                                                    *)
(***************************************************************************)
\* number of flush() invocations made one after another on the same identity
MaxFlush == 2
\* number of changes other actors make to the remote object during a run
MaxExternal == 1
\* number of remote primitive calls that fail during a run
MaxFaults == 1
\* the largest f5_retries a provider is given
MaxRetries == 4
\* the longest path given to _get_resource_id_from_path
MaxPathLen == 7
\* the longest string given to convert and format_value
MaxStrLen == 3
\* the longest list and the largest dict given to convert and format_value
MaxItems == 2
\* the largest translation table given to __init__
MaxEntries == 2

(***************************************************************************)
(* Python values.                                                          *)
(***************************************************************************)
None == [t |-> "none"]
Str(chars) == [t |-> "str", s |-> chars]
Bool(b) == [t |-> "bool", b |-> b]
List(items) == [t |-> "list", l |-> items]
PySet(elems) == [t |-> "set", e |-> elems]

Range(f) == {f[i] : i \in DOMAIN f}

EmptyDict == [k \in {} |-> None]

\* d1.update(d2), for dicts as functions
DictUpdate(d1, d2) ==
    [k \in (DOMAIN d1) \cup (DOMAIN d2) |-> IF k \in DOMAIN d2 THEN d2[k] ELSE d1[k]]

\* d[k] = v
DictSet(d, k, v) == [n \in DOMAIN d \cup {k} |-> IF n = k THEN v ELSE d[n]]

\* del d[k], d.pop(k, None)
DictDel(d, k) == [n \in DOMAIN d \ {k} |-> d[n]]

\* the key of the translation table among the keyword arguments
TR == <<"t", "r">>

\* Python truthiness ("if new_val:", "if check:", "if cparams:")
Truthy(v) ==
    CASE v.t = "none" -> FALSE
      [] v.t = "str"  -> v.s # <<>>
      [] v.t = "bool" -> v.b
      [] v.t = "list" -> v.l # <<>>
      [] v.t = "set"  -> v.e # {}

RECURSIVE LStrip(_)
LStrip(chars) ==
    IF chars # <<>> /\ Head(chars) = " " THEN LStrip(Tail(chars)) ELSE chars

RECURSIVE RStrip(_)
RStrip(chars) ==
    IF chars # <<>> /\ chars[Len(chars)] = " "
    THEN RStrip(SubSeq(chars, 1, Len(chars) - 1))
    ELSE chars

\* a strip that takes one blank at most from each end
StripOnce(chars) ==
    LET l == IF chars # <<>> /\ Head(chars) = " " THEN Tail(chars) ELSE chars IN
    IF l # <<>> /\ l[Len(l)] = " " THEN SubSeq(l, 1, Len(l) - 1) ELSE l

\* str.strip()
strip(chars) == RStrip(LStrip(chars))

\* a dict, as its (key, value) items in iteration order
PyDict(items) == [t |-> "dict", items |-> items]

\* dict(pairs): a key met again keeps its place and takes the later value
RECURSIVE DictFrom(_, _)
DictFrom(pairs, acc) ==
    IF pairs = <<>> THEN acc
    ELSE LET p == Head(pairs)
             at == {i \in DOMAIN acc : acc[i].k = p.k}
         IN  DictFrom(Tail(pairs),
                      IF at = {} THEN Append(acc, p)
                      ELSE [i \in DOMAIN acc |-> IF i \in at THEN p ELSE acc[i]])

\* f5_base.convert: strings are stripped, a mapping is rebuilt from its
\* converted (key, value) items, any other iterable from its converted
\* items, anything else is returned as it is
RECURSIVE convert(_)
convert(data) ==
    CASE data.t = "str"  -> Str(strip(data.s))
      [] data.t = "dict" ->
            PyDict(DictFrom([i \in DOMAIN data.items |->
                                [k |-> convert(data.items[i].k),
                                 v |-> convert(data.items[i].v)]], <<>>))
      [] data.t = "list" -> List([i \in DOMAIN data.l |-> convert(data.l[i])])
      [] data.t = "set"  -> PySet({convert(x) : x \in data.e})
      [] OTHER           -> data

\* f5bigip.format_value: a string is stripped, a list becomes set(list) (its
\* items are left as they are), anything else is returned as it is
format_value(value) ==
    CASE value.t = "str"  -> Str(strip(value.s))
      [] value.t = "list" -> PySet(Range(value.l))
      [] OTHER            -> value

\* a DeepDiff without ignore_order: two lists differ when they are not the
\* same sequence
DeepDiffOrdered(cur_val, new_val) == cur_val # new_val

\* bool(DeepDiff(cur_val, new_val, ignore_order=True)): two lists differ when
\* they differ as sets of items (order and repetition ignored); any other two
\* values differ when they are not equal
DeepDiff(cur_val, new_val) ==
    IF cur_val.t = "list" /\ new_val.t = "list"
    THEN Range(cur_val.l) # Range(new_val.l)
    ELSE cur_val # new_val

\* a _missing_required_params that stops at the first missing name
FirstMissingRequiredParam(rqset, prm) ==
    IF rqset \subseteq DOMAIN prm THEN {}
    ELSE {CHOOSE key \in rqset \ (DOMAIN prm) : TRUE}

\* _missing_required_params: the required names that are not keys of params
\* (a key whose value is None counts as received)
_missing_required_params(rqset, prm) == rqset \ (DOMAIN prm)


(***************************************************************************)
(* The diff of _update.                                                    *)
(***************************************************************************)
\* f5_base._update, the loop over params: a key is kept when its new value is
\* not None and either the object has the attribute and DeepDiff finds a
\* difference with the converted current value, or the object lacks the
\* attribute and the new value is truthy
BaseChangedKeys(ob, prm) ==
    {key \in DOMAIN prm :
        /\ prm[key] # None
        /\ IF key \in DOMAIN ob
           THEN DeepDiff(convert(ob[key]), prm[key])
           ELSE Truthy(prm[key])}

\* an _update that sends the whole object back with the changed keys
BaseCParamsWholeObject(ob, prm) ==
    IF BaseChangedKeys(ob, prm) = {} THEN EmptyDict
    ELSE DictUpdate(ob, [key \in BaseChangedKeys(ob, prm) |-> prm[key]])

\* f5_base._update: cparams[key] = new_val, the desired value as given
BaseCParams(ob, prm) ==
    [key \in BaseChangedKeys(ob, prm) |-> prm[key]]

\* list(a_set): the items in the iteration order of the set, which Python
\* leaves to the implementation; ord is that order, a sequence holding every
\* possible item once
ListOfSet(elems, ord) == List(SelectSeq(ord, LAMBDA x : x \in elems))

\* f5bigip._update: cur_val, None when the object lacks the attribute
BigipCurVal(big, key) ==
    IF key \in DOMAIN big THEN format_value(big[key]) ELSE None

\* f5bigip._update: "if cur_val is None: cur_val = set()"
BigipCurSet(big, key) ==
    IF BigipCurVal(big, key) = None THEN {} ELSE BigipCurVal(big, key).e

\* a present-state diff that lets the desired items replace the current ones
PresentCandidateReplace(cur, new) == new

\* f5bigip._update, state "present": cur_val | new_val
PresentCandidate(cur, new) == cur \cup new

\* an absent-state diff that keeps the named items instead of removing them
AbsentCandidateKeep(cur, new) == cur \cap new

\* f5bigip._update, state "absent": cur_val - new_val
AbsentCandidate(cur, new) == cur \ new

\* f5bigip._update: the candidate set of a set-valued key under state
BigipCandidate(big, prm, st, key) ==
    IF st = "present"
    THEN PresentCandidate(BigipCurSet(big, key), format_value(prm[key]).e)
    ELSE AbsentCandidate(BigipCurSet(big, key), format_value(prm[key]).e)

\* f5bigip._update: whether the candidate of a set-valued key is kept,
\* len(new_list) > len(cur_val) under present, < under absent
BigipSetKept(big, prm, st, key) ==
    IF st = "present"
    THEN Cardinality(BigipCandidate(big, prm, st, key))
             > Cardinality(BigipCurSet(big, key))
    ELSE IF st = "absent"
    THEN Cardinality(BigipCandidate(big, prm, st, key))
             < Cardinality(BigipCurSet(big, key))
    ELSE FALSE

\* f5bigip._update, the loop over params: the keys that enter cparams
BigipChangedKeys(big, prm, st) ==
    {key \in DOMAIN prm :
        /\ format_value(prm[key]) # None
        /\ IF format_value(prm[key]).t = "set"
           THEN BigipSetKept(big, prm, st, key)
           ELSE format_value(prm[key]) # BigipCurVal(big, key)}

\* f5bigip._update: cparams, new_list for a set-valued key and the formatted
\* new value otherwise
BigipCParams(big, prm, st, ord) ==
    [key \in BigipChangedKeys(big, prm, st) |->
        IF format_value(prm[key]).t = "set"
        THEN ListOfSet(BigipCandidate(big, prm, st, key), ord)
        ELSE format_value(prm[key])]

\* f5bigip._update: "cur_val | new_val" and "cur_val - new_val" raise a
\* TypeError when the new value is a list and the current one is not
BigipTypeError(big, prm) ==
    \E key \in DOMAIN prm :
        /\ format_value(prm[key]).t = "set"
        /\ BigipCurVal(big, key).t \notin {"none", "set"}

\* _create: params without the keys whose value is None
CreateParams(prm) ==
    [k \in {k \in DOMAIN prm : prm[k] # None} |-> prm[k]]

(***************************************************************************)
(* State.                                                                  *)
(***************************************************************************)
VARIABLES
    variant,                 \* "base" (f5_base.py) or "bigip" (f5bigip.py)
    kind,                    \* "named" or "unnamed" object class
    methods,                 \* the names of the CRUD methods of the resource
    required_create_params,
    required_load_params,
    required_update_params,
    params,                  \* self.params after __init__
    state,                   \* self.state
    request,                 \* the method the caller invokes: flush, _create or _delete
    check_mode,              \* self.check_mode
    remote,                  \* the remote object: [exists, attrs]
    pc,                      \* where the running flush() stands
    obj,                     \* self.obj (self.big): the object last read
    cparams,                 \* the changed params computed by _update
    calls,                   \* the remote calls of the running flush(), in order
    result,                  \* what the running flush() returned or raised
    history,                 \* the finished flush() invocations, oldest first
    externals,               \* changes other actors may still make
    faults,                  \* remote calls that may still fail
    provider,                \* the client's connection parameters
    x,                       \* mgmt_root: the connection attempts that failed
    err,                     \* mgmt_root: the last exception caught
    mgmt_root,               \* mgmt_root: what the property returned or raised
    attempts,                \* mgmt_root: how each attempt ended, in order
    path,                    \* _get_resource_id_from_path: its argument
    res_id_args,             \* _get_resource_id_from_path: what it returned or raised
    data,                    \* convert / format_value: the argument
    normalized,              \* convert / format_value: what it returned, call after call
    kwargs,                  \* __init__: the keyword arguments it is given
    constructed,             \* __init__: whether it returned, or what it raised
    caller,                  \* which of two concurrent callers is running
    peer                     \* the flush() of the other caller, while it waits

vars == <<variant, kind, methods, required_create_params, required_load_params,
          required_update_params, params, state, request, check_mode, remote,
          pc, obj, cparams, calls, result, history, externals, faults,
          provider, x, err, mgmt_root, attempts, path, res_id_args, data,
          normalized, kwargs, constructed, caller, peer>>

config == <<variant, kind, methods, required_create_params,
            required_load_params, required_update_params, params, state,
            request>>

\* what a run of flush() reads and writes besides config
engine_vars == <<check_mode, remote, pc, obj, cparams, calls, result, history,
                 externals, faults>>

\* the variables of the client's mgmt_root property
client_vars == <<provider, x, err, mgmt_root, attempts>>

\* the variables of a call of _get_resource_id_from_path
resolver_vars == <<path, res_id_args>>

\* the variables of a call of convert or format_value
value_vars == <<data, normalized>>

\* the variables of a call of __init__
ctor_vars == <<kwargs, constructed>>

\* the variables of a second caller working on the same identity
race_vars == <<caller, peer>>

(***************************************************************************)
(* The values the model draws from.                                        *)
(***************************************************************************)
X == Str(<<"x">>)
Y == Str(<<"y">>)
Z == Str(<<"z">>)

\* every item a set-valued field may hold
Items == {X, Y, Z}

\* the iteration orders list(a_set) may follow
Orders == {ord \in [1..Cardinality(Items) -> Items] : Range(ord) = Items}

\* the keys of params, in the remote naming convention
Keys == {"name", "description", "members"}

NameValue == Str(<<"n">>)

\* stands for a key a dict lacks
Absent == [t |-> "absent"]

\* desired values of the scalar field, Absent when params lacks the key
DesiredScalars == {Absent, None, Str(<<"a">>), Str(<<" ", "a">>), Str(<<>>)}

\* desired values of the set-valued field, Absent when params lacks the key
DesiredLists ==
    {Absent, None, List(<<>>), List(<<X>>), List(<<Z, Y>>), List(<<Y, X>>)}

\* current values of the scalar field, Absent when the object lacks the attribute
RemoteScalars == {Absent, Str(<<"a">>), Str(<<"a", " ">>), Str(<<"b">>)}

\* current values of the set-valued field, Absent when the object lacks it
RemoteLists == {Absent, List(<<X, Y>>), List(<<X, Y, Z>>)}

\* the dict with the given values, without the keys whose value is Absent
Dict(name, description, members) ==
    LET all == [k \in Keys |-> CASE k = "name" -> name
                                 [] k = "description" -> description
                                 [] k = "members" -> members]
    IN  [k \in {k \in Keys : all[k] # Absent} |-> all[k]]

\* the required-params sets a resource class declares
RequiredChoices ==
    { [create |-> {}, load |-> {}, update |-> {}],
      [create |-> {"name", "description"}, load |-> {"name"}, update |-> {}],
      [create |-> {"name", "description", "members"}, load |-> {"name"},
       update |-> {"description"}],
      [create |-> {}, load |-> {"description"}, update |-> {"members"}] }

CrudMethods == {"exists", "read", "create", "update", "delete"}

NoObject == [exists |-> FALSE, attrs |-> EmptyDict]

\* self.obj = None
NoObj == [loaded |-> FALSE, attrs |-> EmptyDict]

\* self.obj after a read or a refresh: the attributes of the remote object
Loaded(attrs) == [loaded |-> TRUE, attrs |-> attrs]

NoResult == [status |-> "none", changed |-> FALSE, error |-> "", missing |-> {}]
Changed(b) == [status |-> "ok", changed |-> b, error |-> "", missing |-> {}]
Error(e, m) == [status |-> "error", changed |-> FALSE, error |-> e, missing |-> m]

\* a remote call made by flush(): the primitive, its keyword arguments, how it
\* ended (an Outcomes value) and, for an existence probe, what _exists returned
Call(op, args, outcome, found) ==
    [op |-> op, args |-> args, outcome |-> outcome, found |-> found]

Mutating == {"create", "update", "modify", "delete"}

(***************************************************************************)
(* Initial states: an engine object just constructed, for any class,       *)
(* target state, check mode and parameter set, and any remote object.      *)
(***************************************************************************)
\* the hosts, ports and exception texts of the connection attempts
Hosts == {"h1", "h2"}
Ports == {"443", "8443"}
ErrorTexts == {"refused", "timed out"}

\* the exception caught by mgmt_root, with its text
Exc(text) == [t |-> "exc", text |-> text]

\* the provider of a client: f5_retries is a key of it or not (has_retries)
Provider(product, host, port, has_retries, f5_retries) ==
    [product |-> product, f5_hostname |-> host, f5_port |-> port,
     has_retries |-> has_retries, f5_retries |-> f5_retries]

\* the providers of the model: F5BigIpClient does not read f5_retries
Providers ==
    {Provider("bigip", h, p, FALSE, 0) : h \in Hosts, p \in Ports}
    \cup {Provider("iworkflow", h, p, FALSE, 0) : h \in Hosts, p \in Ports}
    \cup {Provider("iworkflow", h, p, TRUE, n) :
              h \in Hosts, p \in Ports, n \in 0..MaxRetries}

\* mgmt_root has not returned yet
NoRoot == [status |-> "none", host |-> "", port |-> "", texts |-> <<>>]

\* the ManagementRoot returned by mgmt_root
Session(p) ==
    [status |-> "session", host |-> p.f5_hostname, port |-> p.f5_port,
     texts |-> <<>>]

\* the AnsibleF5Error raised by mgmt_root: 'Unable to connect to <host> on
\* port <port>.', followed by 'The error message was "<err>".' when err is
\* not None
UnableToConnect(p, e) ==
    [status |-> "error", host |-> p.f5_hostname, port |-> p.f5_port,
     texts |-> IF e = None THEN <<>> ELSE <<e.text>>]

\* the object was built on a connected client; no mgmt_root call is running
ClientIdle ==
    /\ provider = Provider("bigip", "h1", "443", FALSE, 0)
    /\ x = 0
    /\ err = None
    /\ mgmt_root = Session(provider)
    /\ attempts = <<"ok">>

\* no call of _get_resource_id_from_path is running
NoIdentity == [status |-> "none", args |-> EmptyDict]

ResolverIdle ==
    /\ path = <<>>
    /\ res_id_args = NoIdentity

\* no call of convert or format_value is running
NotNormalized == <<>>

ValueIdle ==
    /\ data = None
    /\ normalized = NotNormalized

\* no __init__ is running: the object was built from its params
CtorIdle ==
    /\ kwargs = EmptyDict
    /\ constructed = "ok"

\* a caller that is not there
NoPeer == [params |-> EmptyDict, pc |-> "done", result |-> NoResult,
           obj |-> NoObj, cparams |-> EmptyDict, calls |-> <<>>]

\* a single caller works on the identity
RaceIdle ==
    /\ caller = 1
    /\ peer = NoPeer

\* no flush() is wanted: a named object that was just built
EngineIdle ==
    /\ variant \in {"base", "bigip"}
    /\ kind = "named"
    /\ methods = CrudMethods
    /\ required_create_params = {}
    /\ required_load_params = {}
    /\ required_update_params = {}
    /\ state = "present"
    /\ request = "flush"
    /\ check_mode = FALSE
    /\ remote = NoObject
    /\ pc = "start"
    /\ obj = NoObj
    /\ cparams = EmptyDict
    /\ calls = <<>>
    /\ result = NoResult
    /\ history = <<>>
    /\ externals = 0
    /\ faults = 0

\* the engine object, its desired values drawn from scalars and lists
InitObject(scalars, lists) ==
    /\ variant \in {"base", "bigip"}
    /\ kind \in {"named", "unnamed"}
    \* only f5_base._update looks for 'modify' in self.methods
    /\ methods \in IF variant = "base"
                   THEN {CrudMethods, CrudMethods \cup {"modify"}}
                   ELSE {CrudMethods}
    /\ \E rq \in RequiredChoices :
          /\ required_create_params = rq.create
          /\ required_load_params = rq.load
          /\ required_update_params = rq.update
    /\ \E d \in scalars, m \in lists :
          params = Dict(NameValue, d, m)
    /\ state \in {"present", "absent"}
    \* the modules call flush(); _create and _delete of the unnamed classes
    \* are there to refuse a direct call
    /\ request \in IF kind = "unnamed" THEN {"flush", "_create", "_delete"}
                   ELSE {"flush"}
    /\ check_mode \in BOOLEAN
    /\ pc = "start"
    /\ obj = NoObj
    /\ cparams = EmptyDict
    /\ calls = <<>>
    /\ result = NoResult
    /\ history = <<>>

\* the remote object, its current values drawn from scalars and lists; a
\* singleton (unnamed) resource always exists
InitRemote(scalars, lists) ==
    \/ /\ kind = "named"
       /\ remote = NoObject
    \/ \E d \in scalars, m \in lists :
          remote = [exists |-> TRUE, attrs |-> Dict(NameValue, d, m)]

\* the remote system answers every call and nobody else touches the object;
\* every desired and current value of the model
InitQuiet ==
    /\ InitObject(DesiredScalars, DesiredLists)
    /\ InitRemote(RemoteScalars, RemoteLists)
    /\ externals = 0
    /\ faults = 0
    /\ ClientIdle /\ ResolverIdle /\ ValueIdle
    /\ CtorIdle /\ RaceIdle

\* calls may fail and other actors may change the object; the values are
\* those that take flush() through each of its paths
Init ==
    /\ InitObject({Absent, Str(<<"a">>)}, {Absent, List(<<Z, Y>>)})
    /\ InitRemote({Absent, Str(<<"a">>)}, {Absent, List(<<X, Y>>)})
    /\ externals = MaxExternal
    /\ faults = MaxFaults
    /\ ClientIdle /\ ResolverIdle /\ ValueIdle
    /\ CtorIdle /\ RaceIdle

\* as Init, with one parameter set, one choice of required params and one
\* remote object: whether a call ends does not depend on the values it carries
InitLive ==
    /\ InitObject({Str(<<"a">>)}, {List(<<Z, Y>>)})
    /\ required_create_params = {"name", "description"}
    /\ InitRemote({Absent}, {List(<<X, Y>>)})
    /\ externals = MaxExternal
    /\ faults = MaxFaults
    /\ ClientIdle /\ ResolverIdle /\ ValueIdle
    /\ CtorIdle /\ RaceIdle

\* two engine objects of the same class are built for the same identity, with
\* the same target state and their own parameters; each is about to run
\* flush(), and the remote system answers every call
InitRace ==
    /\ InitObject({Absent}, {Absent, List(<<Y>>)})
    /\ \E m \in {Absent, List(<<Z>>), List(<<Z, Y>>)} :
          peer = [params |-> Dict(NameValue, Absent, m), pc |-> "start",
                  result |-> NoResult, obj |-> NoObj, cparams |-> EmptyDict,
                  calls |-> <<>>]
    /\ caller = 1
    /\ InitRemote({Absent}, {Absent, List(<<X>>)})
    /\ externals = 0
    /\ faults = 0
    /\ ClientIdle /\ ResolverIdle /\ ValueIdle /\ CtorIdle

\* the characters of a path
PathChars == {"/", "a", "b"}

\* every path of at most MaxPathLen characters
Paths == UNION {[1..n -> PathChars] : n \in 0..MaxPathLen}

\* self.params of the named object the path is resolved for: without a
\* partition, with partition None, with a partition
PartitionChoices ==
    { [name |-> NameValue],
      [name |-> NameValue, partition |-> None],
      [name |-> NameValue, partition |-> Str(<<"p">>)] }

\* a named object of either file whose _get_resource_id_from_path is about
\* to be called with any path
InitPath ==
    /\ EngineIdle
    /\ params \in PartitionChoices
    /\ ClientIdle /\ ValueIdle
    /\ CtorIdle /\ RaceIdle
    /\ path \in Paths
    /\ res_id_args = NoIdentity

\* the strings, scalars, lists, sets and dicts given to the normalizers
Strings == UNION {[1..n -> {" ", "a"}] : n \in 0..MaxStrLen}

ScalarValues == {None, Bool(TRUE), Bool(FALSE)} \cup {Str(c) : c \in Strings}

ListValues == {List(l) : l \in UNION {[1..n -> ScalarValues] : n \in 0..MaxItems}}

SetValues ==
    {PySet(e) : e \in {e \in SUBSET {Str(<<"a">>), Str(<<" ", "a">>), Bool(TRUE)} :
                          Cardinality(e) <= MaxItems}}

DictKeys == {Str(<<"a">>), Str(<<" ", "a">>), Str(<<"a", " ">>), Bool(TRUE)}

DictItemValues ==
    {None, Str(<<" ", "a", " ">>), List(<<Str(<<"a", " ">>)>>),
     PyDict(<<[k |-> Str(<<" ", "a">>), v |-> Str(<<"a", " ">>)]>>)}

DictValues ==
    {PyDict(items) :
        items \in {q \in UNION {[1..n -> [k : DictKeys, v : DictItemValues]] :
                                    n \in 0..MaxItems} :
                      \A i, j \in DOMAIN q : q[i].k = q[j].k => i = j}}

Values == ScalarValues \cup ListValues \cup SetValues \cup DictValues

\* convert (f5_base.py) or format_value (f5bigip.py) is about to be called
\* with any value
InitValue ==
    /\ EngineIdle
    /\ params = [name |-> NameValue]
    /\ ClientIdle /\ ResolverIdle
    /\ CtorIdle /\ RaceIdle
    /\ data \in Values
    /\ normalized = NotNormalized

\* the names of the parameters the module passes, and the names a table may
\* translate them to
ParamNames == {<<"a">>, <<"b">>, <<"a", "_", "b">>}
TargetNames == ParamNames \cup {<<"c">>, <<"c", "_", "a">>}

\* the translation tables: up to MaxEntries entries in iteration order, no
\* key twice
Tables ==
    {PyDict(items) :
        items \in {q \in UNION {[1..n -> [k : {Str(n1) : n1 \in ParamNames},
                                           v : {Str(n2) : n2 \in TargetNames}]] :
                                    n \in 0..MaxEntries} :
                      \A i, j \in DOMAIN q : q[i].k = q[j].k => i = j}}

\* the keyword arguments left once the connection params, state and
\* check_mode are popped: some parameters, with or without a table
Kwargs ==
    UNION {[names -> {X, Y}] : names \in SUBSET ParamNames}
    \cup UNION {{DictSet(kw, TR, tr) :
                    kw \in [names -> {X, Y}], tr \in Tables} :
                names \in SUBSET ParamNames}

\* __init__ is about to be called with any keyword arguments
InitConstruct ==
    /\ EngineIdle
    /\ params = EmptyDict
    /\ ClientIdle /\ ResolverIdle /\ ValueIdle /\ RaceIdle
    /\ kwargs \in Kwargs
    /\ constructed = "no"

\* a client of ansible_common_f5.bigip or ansible_common_f5.iworkflow whose
\* mgmt_root is about to be read, for any provider
InitConnect ==
    /\ EngineIdle /\ variant = "base"
    /\ params = [name |-> NameValue]
    /\ ResolverIdle /\ ValueIdle
    /\ CtorIdle /\ RaceIdle
    /\ provider \in Providers
    /\ x = 0
    /\ err = None
    /\ mgmt_root = NoRoot
    /\ attempts = <<>>

(***************************************************************************)
(* The remote system (f5-sdk resource methods), as the engine sees it.     *)
(***************************************************************************)
\* how a remote call may end: it answers, it raises requests' HTTPError, or
\* it raises any other exception
Outcomes == {"ok", "HTTPError", "Exception"}

\* methods['create'](**params): the object now exists with the given fields
RemoteCreate(args) == [exists |-> TRUE, attrs |-> args]

\* a remote system that adds the items written to a list to those it holds
RemoteUpdateMerging(rem, args) ==
    [rem EXCEPT !.attrs =
        [k \in (DOMAIN @) \cup (DOMAIN args) |->
            IF k \notin DOMAIN args THEN @[k]
            ELSE IF k \in DOMAIN @ /\ @[k].t = "list" /\ args[k].t = "list"
            THEN List(@[k].l \o args[k].l)
            ELSE args[k]]]

\* obj.update(**cparams) / obj.modify(**cparams): the given fields are written
RemoteUpdate(rem, args) == [rem EXCEPT !.attrs = DictUpdate(@, args)]

\* obj.delete(): the object is gone
RemoteDelete == NoObject

\* _get_resource_id_from_params: name, and partition / subPath when not None
_get_resource_id_from_params(prm) ==
    [k \in {k \in {"name", "partition", "subPath"} \cap DOMAIN prm :
               k = "name" \/ prm[k] # None} |-> prm[k]]

\* the keyword arguments of methods['exists'] and methods['read']: the
\* resource id of a named object, nothing for an unnamed one
IdArgs == IF kind = "named" THEN _get_resource_id_from_params(params) ELSE EmptyDict

(***************************************************************************)
(* A step of flush() maps the part of the state it may change to its new   *)
(* value.                                                                  *)
(***************************************************************************)
Here == [pc |-> pc, result |-> result, obj |-> obj, cparams |-> cparams,
         calls |-> calls, remote |-> remote]

Raise(s, e, m) == [s EXCEPT !.pc = "done", !.result = Error(e, m)]
Return(s, b) == [s EXCEPT !.pc = "done", !.result = Changed(b)]
Goto(s, p) == [s EXCEPT !.pc = p]

\* the remote call op(**args) is made: how it ended and, for an existence
\* probe, what _exists returned
Logged(s, op, args, outcome, found) ==
    [s EXCEPT !.calls = Append(@, Call(op, args, outcome, found))]

\* how a call on an object ends: as the remote system decides (o), and with
\* an HTTPError (404) when the call would answer but the object is gone
OnObject(o, rem) == IF o = "ok" /\ ~rem.exists THEN "HTTPError" ELSE o

\* how methods['create'] ends: as the remote system decides (o), and with an
\* HTTPError (409) when the call would answer but the object is already there
OnCreate(o, rem) == IF o = "ok" /\ rem.exists THEN "HTTPError" ELSE o

\* an _exists that takes the object's presence for the answer of a failed check
ExistsDespiteError(o, rem) == rem.exists

\* _exists: the answer of methods['exists'], False on an HTTPError
_exists(o, rem) == IF o = "HTTPError" THEN FALSE ELSE rem.exists

\* a _check_update_params that finds nothing missing
UpdateParamsUnchecked == {}

\* _check_create_params / _check_load_params / _check_update_params: the
\* list named by the error, empty when nothing is raised
_check_create_params == _missing_required_params(required_create_params, params)
_check_load_params == _missing_required_params(required_load_params, params)
_check_update_params == _missing_required_params(required_update_params, params)

\* "if self.check_mode: return changed" of _update, after the diff
UpdateDryRun == check_mode

\* a _create that does not look at check_mode
CreateDryRunOff == FALSE

\* "if self.check_mode: return True" of _create, after the params check
CreateDryRun == check_mode

\* "if self.check_mode: return True" of _delete, after the read
DeleteDryRun == check_mode

\* an _update that returns False in check mode
UpdateDryRunResultFalse == FALSE

\* what _update, _create and _delete return in check mode
UpdateDryRunResult == TRUE
CreateDryRunResult == TRUE
DeleteDryRunResult == TRUE

\* a _read that keeps the object of an earlier call when there is one
ReadCached(s, o) ==
    IF _check_load_params # {}
    THEN Raise(s, "MissingLoadParams", _check_load_params)
    ELSE LET a == OnObject(o, s.remote)
             c == Logged(s, "read", IdArgs, a, FALSE)
         IN  IF a # "ok" THEN Raise(c, a, {})
             ELSE IF s.obj.loaded THEN c
             ELSE [c EXCEPT !.obj = Loaded(s.remote.attrs)]

\* _read: check the load params, call methods['read'], keep the object
_read(s, o) ==
    IF _check_load_params # {}
    THEN Raise(s, "MissingLoadParams", _check_load_params)
    ELSE LET a == OnObject(o, s.remote)
             c == Logged(s, "read", IdArgs, a, FALSE)
         IN  IF a # "ok" THEN Raise(c, a, {})
             ELSE [c EXCEPT !.obj = Loaded(s.remote.attrs)]

\* "if cparams:" of _update
UpdateNeeded(cp) == DOMAIN cp # {}

\* _update up to the remote call: read, check the update params, compute
\* cparams; nothing changed returns False, check mode returns True
_update(s0, o, ord) ==
    LET s == _read(s0, o) IN
    IF s.pc = "done" THEN s
    ELSE IF _check_update_params # {}
    THEN Raise(s, "MissingUpdateParams", _check_update_params)
    ELSE IF variant = "bigip" /\ BigipTypeError(s.obj.attrs, params)
    THEN Raise(s, "TypeError", {})
    ELSE LET cp == IF variant = "base"
                   THEN BaseCParams(s.obj.attrs, params)
                   ELSE BigipCParams(s.obj.attrs, params, state, ord)
             t == [s EXCEPT !.cparams = cp]
         IN  IF ~UpdateNeeded(cp) THEN Return(t, FALSE)
             ELSE IF UpdateDryRun THEN Return(t, UpdateDryRunResult)
             ELSE Goto(t, "update_call")

\* the name of the method _update calls with cparams
UpdateMethod ==
    IF variant = "base" /\ "modify" \in methods THEN "modify" ELSE "update"

\* an _update that returns after update/modify, without the refresh
UpdateCallUnrefreshed(s, o) ==
    LET a == OnObject(o, s.remote)
        c == Logged(s, UpdateMethod, s.cparams, a, FALSE)
    IN  IF a # "ok" THEN Raise(c, a, {})
        ELSE Return([c EXCEPT !.remote = RemoteUpdate(@, s.cparams)], TRUE)

\* _update, obj.modify(**cparams) or obj.update(**cparams)
_update_call(s, o) ==
    LET a == OnObject(o, s.remote)
        c == Logged(s, UpdateMethod, s.cparams, a, FALSE)
    IN  IF a # "ok" THEN Raise(c, a, {})
        ELSE Goto([c EXCEPT !.remote = RemoteUpdate(@, s.cparams)], "refresh")

\* an _update that does not mind a failed refresh
RefreshUnchecked(s, o) ==
    LET a == OnObject(o, s.remote)
        c == Logged(s, "refresh", EmptyDict, a, FALSE)
    IN  IF a # "ok" THEN Return(c, TRUE)
        ELSE Return([c EXCEPT !.obj = Loaded(s.remote.attrs)], TRUE)

\* _update, obj.refresh() and "return changed"
_update_refresh(s, o) ==
    LET a == OnObject(o, s.remote)
        c == Logged(s, "refresh", EmptyDict, a, FALSE)
    IN  IF a # "ok" THEN Raise(c, a, {})
        ELSE Return([c EXCEPT !.obj = Loaded(s.remote.attrs)], TRUE)

\* a _create that gives way to _update when the object has appeared since
\* the probe
CreateUnlessThere(s, o) ==
    IF _check_create_params # {}
    THEN Raise(s, "MissingCreateParams", _check_create_params)
    ELSE IF CreateDryRun THEN Return(s, CreateDryRunResult)
    ELSE IF s.remote.exists THEN Goto(s, "update_read")
    ELSE LET a == OnCreate(o, s.remote)
             c == Logged(s, "create", CreateParams(params), a, FALSE)
         IN  IF a # "ok" THEN Raise(c, a, {})
             ELSE Goto([c EXCEPT !.remote = RemoteCreate(CreateParams(params))],
                       "create_verify")

\* _create up to the existence re-check
_create(s, o) ==
    IF _check_create_params # {}
    THEN Raise(s, "MissingCreateParams", _check_create_params)
    ELSE IF CreateDryRun THEN Return(s, CreateDryRunResult)
    ELSE LET a == OnCreate(o, s.remote)
             c == Logged(s, "create", CreateParams(params), a, FALSE)
         IN  IF a # "ok" THEN Raise(c, a, {})
             ELSE Goto([c EXCEPT !.remote = RemoteCreate(CreateParams(params))],
                       "create_verify")

\* a _create that deletes what it created when the re-check does not find it
CreateRolledBack(s, o) ==
    LET c == Logged(s, "exists", IdArgs, o, o # "Exception" /\ _exists(o, s.remote)) IN
    IF o = "Exception" THEN Raise(c, o, {})
    ELSE IF _exists(o, s.remote) THEN Return(c, TRUE)
    ELSE Raise([Logged(c, "delete", EmptyDict, OnObject("ok", s.remote), FALSE)
                    EXCEPT !.remote = RemoteDelete],
               "CreateFailed", {})

\* a _create that trusts the create call: the re-check is made and ignored
CreateUnverified(s, o) ==
    LET c == Logged(s, "exists", IdArgs, o, o # "Exception" /\ _exists(o, s.remote)) IN
    IF o = "Exception" THEN Raise(c, o, {}) ELSE Return(c, TRUE)

\* _create, "Make sure it is created"
_create_verify(s, o) ==
    LET c == Logged(s, "exists", IdArgs, o, o # "Exception" /\ _exists(o, s.remote)) IN
    IF o = "Exception" THEN Raise(c, o, {})
    ELSE IF _exists(o, s.remote) THEN Return(c, TRUE)
    ELSE Raise(c, "CreateFailed", {})

\* _delete up to the remote call: read, check mode returns True
_delete(s0, o) ==
    LET s == _read(s0, o) IN
    IF s.pc = "done" THEN s
    ELSE IF DeleteDryRun THEN Return(s, DeleteDryRunResult)
    ELSE Goto(s, "delete_call")

\* a _delete that calls delete again when the call failed
DeleteRetried(s, o) ==
    LET a == OnObject(o, s.remote)
        c == Logged(s, "delete", EmptyDict, a, FALSE)
    IN  IF a # "ok" THEN Goto(c, "delete_call")
        ELSE Goto([c EXCEPT !.remote = RemoteDelete], "delete_verify")

\* _delete, obj.delete()
_delete_call(s, o) ==
    LET a == OnObject(o, s.remote)
        c == Logged(s, "delete", EmptyDict, a, FALSE)
    IN  IF a # "ok" THEN Raise(c, a, {})
        ELSE Goto([c EXCEPT !.remote = RemoteDelete], "delete_verify")

\* a _delete that returns False once the object is gone
DeleteUnreported(s, o) ==
    LET c == Logged(s, "exists", IdArgs, o, o # "Exception" /\ _exists(o, s.remote)) IN
    IF o = "Exception" THEN Raise(c, o, {})
    ELSE IF _exists(o, s.remote) THEN Raise(c, "DeleteFailed", {})
    ELSE Return(c, FALSE)

\* a _delete that trusts the delete call: the re-check is made and ignored
DeleteUnverified(s, o) ==
    LET c == Logged(s, "exists", IdArgs, o, o # "Exception" /\ _exists(o, s.remote)) IN
    IF o = "Exception" THEN Raise(c, o, {}) ELSE Return(c, TRUE)

\* _delete, "Make sure it is gone"
_delete_verify(s, o) ==
    LET c == Logged(s, "exists", IdArgs, o, o # "Exception" /\ _exists(o, s.remote)) IN
    IF o = "Exception" THEN Raise(c, o, {})
    ELSE IF _exists(o, s.remote) THEN Raise(c, "DeleteFailed", {})
    ELSE Return(c, TRUE)

\* flush of a named object, _present: "if self._exists()" chooses between
\* _update and _create
_present(s, o) ==
    LET c == Logged(s, "exists", IdArgs, o, o # "Exception" /\ _exists(o, s.remote)) IN
    IF o = "Exception" THEN Raise(c, o, {})
    ELSE IF _exists(o, s.remote) THEN Goto(c, "update_read")
    ELSE Goto(c, "create")

\* F5UnnamedBaseObject._create, F5BigIpUnnamedObject._create: raise
Unnamed_create(s) == Raise(s, "DoesNotSupportCreate", {})

\* a _delete of the unnamed classes that tries the remote delete first
UnnamedDeleteTried(s) ==
    Raise(Logged(s, "delete", EmptyDict, "HTTPError", FALSE), "DoesNotSupportDelete", {})

\* F5UnnamedBaseObject._delete, F5BigIpUnnamedObject._delete: raise
Unnamed_delete(s) == Raise(s, "DoesNotSupportDelete", {})

\* an _absent that goes on to _delete whatever the probe returned
AbsentAlwaysDeletes(s, o) ==
    LET c == Logged(s, "exists", IdArgs, o, o # "Exception" /\ _exists(o, s.remote)) IN
    IF o = "Exception" THEN Raise(c, o, {}) ELSE Goto(c, "delete_read")

\* flush of a named object, _absent: "if self._exists()" chooses between
\* _delete and returning False
_absent(s, o) ==
    LET c == Logged(s, "exists", IdArgs, o, o # "Exception" /\ _exists(o, s.remote)) IN
    IF o = "Exception" THEN Raise(c, o, {})
    ELSE IF _exists(o, s.remote) THEN Goto(c, "delete_read")
    ELSE Return(c, FALSE)

(***************************************************************************)
(* Actions: one per remote call of flush().                                *)
(***************************************************************************)
\* the class of the library's own errors: AnsibleF5Error in f5_base.py,
\* AnsibleModuleF5BigIpError in f5bigip.py
LibraryError ==
    IF variant = "base" THEN "AnsibleF5Error" ELSE "AnsibleModuleF5BigIpError"

\* the class of the exception behind an error of the model: the library's
\* class for what the engine raises, its own class for what a remote call or
\* a Python operator raised
ErrorClass(e) ==
    IF e \in {"HTTPError", "Exception", "TypeError"} THEN e ELSE LibraryError

\* the step ends in r; a call that fails (o) is one of the faults allowed
Step(r, o) ==
    /\ o = "ok" \/ (faults > 0 /\ Len(r.calls) > Len(calls))
    /\ faults' = IF o = "ok" THEN faults ELSE faults - 1
    /\ pc' = r.pc
    /\ result' = r.result
    /\ obj' = r.obj
    /\ cparams' = r.cparams
    /\ calls' = r.calls
    /\ remote' = r.remote
    /\ UNCHANGED <<config, check_mode, history, externals>>
    /\ UNCHANGED <<client_vars, resolver_vars, value_vars, ctor_vars, race_vars>>

\* flush, state "present", named object: the existence probe of _present
Present ==
    /\ pc = "start" /\ request = "flush" /\ kind = "named" /\ state = "present"
    /\ \E o \in Outcomes : Step(_present(Here, o), o)

\* flush, state "absent", named object: the existence probe of _absent
Absent_ ==
    /\ pc = "start" /\ request = "flush" /\ kind = "named" /\ state = "absent"
    /\ \E o \in Outcomes : Step(_absent(Here, o), o)

\* _update: read and diff; an unnamed object's _present and _absent are _update
Update ==
    /\ \/ pc = "update_read"
       \/ pc = "start" /\ request = "flush" /\ kind = "unnamed"
    /\ \E o \in Outcomes, ord \in Orders : Step(_update(Here, o, ord), o)

UpdateCall ==
    /\ pc = "update_call"
    /\ \E o \in Outcomes : Step(_update_call(Here, o), o)

Refresh ==
    /\ pc = "refresh"
    /\ \E o \in Outcomes : Step(_update_refresh(Here, o), o)

Create ==
    /\ pc = "create"
    /\ \E o \in Outcomes : Step(_create(Here, o), o)

CreateVerify ==
    /\ pc = "create_verify"
    /\ \E o \in Outcomes : Step(_create_verify(Here, o), o)

Delete ==
    /\ pc = "delete_read"
    /\ \E o \in Outcomes : Step(_delete(Here, o), o)

DeleteCall ==
    /\ pc = "delete_call"
    /\ \E o \in Outcomes : Step(_delete_call(Here, o), o)

DeleteVerify ==
    /\ pc = "delete_verify"
    /\ \E o \in Outcomes : Step(_delete_verify(Here, o), o)

\* _create called on an unnamed object
UnnamedCreate ==
    /\ pc = "start" /\ request = "_create" /\ kind = "unnamed"
    /\ Step(Unnamed_create(Here), "ok")

\* _delete called on an unnamed object
UnnamedDelete ==
    /\ pc = "start" /\ request = "_delete" /\ kind = "unnamed"
    /\ Step(Unnamed_delete(Here), "ok")

\* what is kept of a finished flush()
Finished == [result |-> result, check_mode |-> check_mode, calls |-> calls,
             externals |-> externals, faults |-> faults]

\* the module runs again for the same identity with the same parameters and
\* target state, in check mode or not
NewFlush ==
    /\ pc = "done"
    /\ Len(history) + 1 < MaxFlush
    /\ history' = Append(history, Finished)
    /\ pc' = "start"
    /\ calls' = <<>>
    /\ result' = NoResult
    /\ check_mode' \in BOOLEAN
    /\ UNCHANGED <<config, remote, obj, cparams, externals, faults>>
    /\ UNCHANGED <<client_vars, resolver_vars, value_vars, ctor_vars, race_vars>>

\* what another actor may write to the object
ExternalWrites ==
    { Dict(Absent, Str(<<"b">>), Absent), Dict(Absent, Absent, List(<<Z>>)) }

\* the object another actor may create
ExternalObject == Dict(NameValue, Str(<<"b">>), List(<<X, Y>>))

\* the remote objects one change by another actor leads to
ExternalChanges ==
    (IF kind = "named" /\ remote.exists THEN {RemoteDelete} ELSE {})
    \cup (IF ~remote.exists THEN {RemoteCreate(ExternalObject)} ELSE {})
    \cup (IF remote.exists
          THEN {RemoteUpdate(remote, w) : w \in ExternalWrites} \ {remote}
          ELSE {})

\* another actor changes the remote object while a flush() is running
\* (between two flush() calls is before the first call of the second)
ExternalMutate ==
    /\ externals > 0
    /\ pc # "done"
    /\ externals' = externals - 1
    /\ remote' \in ExternalChanges
    /\ UNCHANGED <<config, check_mode, pc, obj, cparams, calls, result,
                   history, faults>>
    /\ UNCHANGED <<client_vars, resolver_vars, value_vars, ctor_vars, race_vars>>

\* one step of the running call: up to and including its next remote call
FlushStep ==
    \/ Present
    \/ Absent_
    \/ Update
    \/ UpdateCall
    \/ Refresh
    \/ Create
    \/ CreateVerify
    \/ Delete
    \/ DeleteCall
    \/ DeleteVerify
    \/ UnnamedCreate
    \/ UnnamedDelete

Engine == FlushStep \/ NewFlush

Next == Engine \/ ExternalMutate

\* flush() against a remote system that may fail and that others may change
Spec == Init /\ [][Next]_vars

\* flush() against a remote system that answers every call and that nobody
\* else changes
SpecQuiet == InitQuiet /\ [][Engine]_vars

(***************************************************************************)
(* Two callers, each with its own engine object built for the same         *)
(* identity, run flush() at the same time. The variables of flush() are    *)
(* those of the caller that is running; the other caller's are in peer.    *)
(***************************************************************************)
\* the flush() of the caller that is running
Running == [params |-> params, pc |-> pc, result |-> result, obj |-> obj,
            cparams |-> cparams, calls |-> calls]

\* the flush() of caller c
Of(c) == IF caller = c THEN Running ELSE peer

\* the running caller waits between two of its remote calls and the other
\* caller, which has not finished, goes on
Switch ==
    /\ peer # NoPeer
    /\ peer.pc # "done"
    /\ caller' = 3 - caller
    /\ peer' = Running
    /\ params' = peer.params
    /\ pc' = peer.pc
    /\ result' = peer.result
    /\ obj' = peer.obj
    /\ cparams' = peer.cparams
    /\ calls' = peer.calls
    /\ UNCHANGED <<variant, kind, methods, required_create_params,
                   required_load_params, required_update_params, state, request>>
    /\ UNCHANGED <<check_mode, remote, history, externals, faults>>
    /\ UNCHANGED <<client_vars, resolver_vars, value_vars, ctor_vars>>

NextRace == FlushStep \/ Switch

\* two callers run flush() for the same identity against a remote system
\* that answers every call
SpecRace == InitRace /\ [][NextRace]_vars

(***************************************************************************)
(* convert and format_value called on a value, then on what they returned. *)
(***************************************************************************)
\* the normalizer of the file: convert in f5_base.py, format_value in
\* f5bigip.py
normalize(v) == IF variant = "base" THEN convert(v) ELSE format_value(v)

\* the normalizer is called on data, and called again on what it returned
Normalize ==
    /\ Len(normalized) < 2
    /\ normalized' = Append(normalized,
                            normalize(IF normalized = <<>> THEN data
                                      ELSE normalized[Len(normalized)]))
    /\ UNCHANGED <<config, engine_vars, client_vars, resolver_vars, data>>
    /\ UNCHANGED <<ctor_vars, race_vars>>

SpecValue == InitValue /\ [][Normalize]_vars

(***************************************************************************)
(* _get_resource_id_from_path of the named classes.                        *)
(***************************************************************************)
\* str.strip('/')
RECURSIVE LStripSlash(_)
LStripSlash(chars) ==
    IF chars # <<>> /\ Head(chars) = "/" THEN LStripSlash(Tail(chars)) ELSE chars

RECURSIVE RStripSlash(_)
RStripSlash(chars) ==
    IF chars # <<>> /\ chars[Len(chars)] = "/"
    THEN RStripSlash(SubSeq(chars, 1, Len(chars) - 1))
    ELSE chars

strip_slash(chars) == RStripSlash(LStripSlash(chars))

\* str.split('/'): the pieces between the separators, one piece (the empty
\* string) for the empty string
RECURSIVE split(_)
split(chars) ==
    IF \A i \in DOMAIN chars : chars[i] # "/" THEN <<chars>>
    ELSE LET i == CHOOSE i \in DOMAIN chars :
                     chars[i] = "/" /\ \A j \in 1..(i - 1) : chars[j] # "/"
         IN  <<SubSeq(chars, 1, i - 1)>> \o split(SubSeq(chars, i + 1, Len(chars)))

\* path_segments: f5_base.py strips the separators at both ends before it
\* splits, f5bigip.py splits the path as given
path_segments(p) ==
    IF variant = "base" THEN split(strip_slash(p)) ELSE split(p)

\* what _get_resource_id_from_path returned, or that it raised
Identity(args) == [status |-> "ok", args |-> args]
InvalidResourceId == [status |-> "error", args |-> EmptyDict]

\* 'partition' in self.params and self.params['partition'] is not None
HasPartition(prm) == "partition" \in DOMAIN prm /\ prm["partition"] # None

\* _get_resource_id_from_path
_get_resource_id_from_path(p) ==
    LET seg == path_segments(p) IN
    CASE Len(seg) = 1 ->
            Identity(IF HasPartition(params)
                     THEN [name |-> Str(seg[1]), partition |-> params["partition"]]
                     ELSE [name |-> Str(seg[1])])
      [] Len(seg) = 2 ->
            Identity([partition |-> Str(seg[1]), name |-> Str(seg[2])])
      [] Len(seg) = 3 ->
            Identity([partition |-> Str(seg[1]), subPath |-> Str(seg[2]),
                      name |-> Str(seg[3])])
      [] OTHER -> InvalidResourceId

\* a call of _get_resource_id_from_path(path)
Resolve ==
    /\ res_id_args = NoIdentity
    /\ res_id_args' = _get_resource_id_from_path(path)
    /\ UNCHANGED <<config, engine_vars, client_vars, path, value_vars>>
    /\ UNCHANGED <<ctor_vars, race_vars>>

\* the resolver called once, for any path and any ambient partition
SpecPath == InitPath /\ [][Resolve]_vars

(***************************************************************************)
(* __init__ of F5BaseObject and F5BigIpBaseObject: from the keyword        *)
(* arguments to self.params. A parameter name is the sequence of its       *)
(* characters.                                                             *)
(***************************************************************************)
\* str.upper() of one character
Upper(c) ==
    CASE c = "a" -> "A" [] c = "b" -> "B" [] c = "c" -> "C"
      [] c = "r" -> "R" [] c = "t" -> "T" [] OTHER -> c

\* the characters [a-z] of the model
LowerCase == {"a", "b", "c", "r", "t"}

\* snake_to_camel: every '_' followed by a lower-case letter is replaced by
\* that letter in upper case
RECURSIVE snake_to_camel(_)
snake_to_camel(name) ==
    IF name = <<>> THEN <<>>
    ELSE IF Len(name) >= 2 /\ name[1] = "_" /\ name[2] \in LowerCase
    THEN <<Upper(name[2])>> \o snake_to_camel(SubSeq(name, 3, Len(name)))
    ELSE <<name[1]>> \o snake_to_camel(Tail(name))

\* change_dict_naming_convention(d, snake_to_camel): the values under the
\* converted keys (the names of the model convert to distinct names)
change_dict_naming_convention(d) ==
    [n \in {snake_to_camel(k) : k \in DOMAIN d} |->
        d[CHOOSE k \in DOMAIN d : snake_to_camel(k) = n]]

\* "for k, v in iteritems(self.params['tr'])": the entries of the table are
\* taken one after the other, each on self.params as the entries before it
\* left it: "if k in self.params: self.params[v] = self.params[k]; del
\* self.params[k]"
RECURSIVE Translate(_, _)
Translate(prm, items) ==
    IF items = <<>> THEN prm
    ELSE LET k == Head(items).k.s
             v == Head(items).v.s
         IN  Translate(IF k \in DOMAIN prm
                       THEN DictDel(DictSet(prm, v, prm[k]), k)
                       ELSE prm,
                       Tail(items))

\* the translation step of __init__, when kwargs has the table: the entries
\* are applied, then the table is removed
Translated(kw) == DictDel(Translate(kw, kw[TR].items), TR)

\* __init__ up to self.params: f5_base.py translates only "if 'tr' in
\* self.params", f5bigip.py reads self.params['tr'] in any case and raises a
\* KeyError without it
Constructed(kw) ==
    IF TR \in DOMAIN kw
    THEN [status |-> "ok", params |-> change_dict_naming_convention(Translated(kw))]
    ELSE IF variant = "base"
    THEN [status |-> "ok", params |-> change_dict_naming_convention(kw)]
    ELSE [status |-> "KeyError", params |-> kw]

\* a call of __init__(**kwargs)
Construct ==
    /\ constructed = "no"
    /\ constructed' = Constructed(kwargs).status
    /\ params' = Constructed(kwargs).params
    /\ obj' = NoObj
    /\ UNCHANGED <<variant, kind, methods, required_create_params,
                   required_load_params, required_update_params, state, request>>
    /\ UNCHANGED <<check_mode, remote, pc, cparams, calls, result, history,
                   externals, faults>>
    /\ UNCHANGED <<client_vars, resolver_vars, value_vars, kwargs, race_vars>>

\* an object of either file built from any keyword arguments
SpecConstruct == InitConstruct /\ [][Construct]_vars

(***************************************************************************)
(* The mgmt_root property of F5BigIpClient and F5iWorkflowClient.          *)
(***************************************************************************)
\* range(3) of F5BigIpClient.mgmt_root
BigIpRetries == 3

\* the default of provider.get('f5_retries', 3) in F5iWorkflowClient.mgmt_root
DefaultRetries == 3

\* the number of rounds of the loop of mgmt_root
retries(p) ==
    IF p.product = "bigip" THEN BigIpRetries
    ELSE IF p.has_retries THEN p.f5_retries ELSE DefaultRetries

\* one round of "for x in range(retries)": ManagementRoot(...) returns and
\* so does mgmt_root, or it raises, the exception is kept in err and the
\* loop goes on after the sleep
Connect ==
    /\ mgmt_root = NoRoot
    /\ x < retries(provider)
    /\ \E o \in {"ok"} \cup ErrorTexts :
          /\ attempts' = Append(attempts, o)
          /\ IF o = "ok"
             THEN /\ mgmt_root' = Session(provider)
                  /\ UNCHANGED <<x, err>>
             ELSE /\ err' = Exc(o)
                  /\ x' = x + 1
                  /\ UNCHANGED mgmt_root
    /\ UNCHANGED <<config, engine_vars, provider, resolver_vars, value_vars>>
    /\ UNCHANGED <<ctor_vars, race_vars>>

\* after the loop: raise AnsibleF5Error(err_msg)
Unable ==
    /\ mgmt_root = NoRoot
    /\ x >= retries(provider)
    /\ mgmt_root' = UnableToConnect(provider, err)
    /\ UNCHANGED <<config, engine_vars, provider, x, err, attempts,
                   resolver_vars, value_vars>>
    /\ UNCHANGED <<ctor_vars, race_vars>>

NextConnect == Connect \/ Unable

\* reading mgmt_root on a client, for any provider and any way the
\* connection attempts end
SpecConnect == InitConnect /\ [][NextConnect]_vars

\* flush() as in Spec, where every remote call returns or fails: the running
\* call is never left waiting forever (Python runs it to its return or raise)
SpecLive == InitLive /\ [][Next]_vars /\ WF_vars(FlushStep)

(***************************************************************************)
(* Properties.                                                             *)
(***************************************************************************)
\* the primitives called in a sequence of remote calls
OpsOf(cs) == {cs[i].op : i \in DOMAIN cs}

\* the remote call made last by the running flush()
LastCall == calls[Len(calls)]

\* params holds every key some required-params set names
Complete ==
    (required_create_params \cup required_load_params \cup required_update_params)
        \subseteq DOMAIN params

\* the keys of params whose desired value is a list
SetKeys == {k \in DOMAIN params : params[k].t = "list"}

\* the items of key k on the object read by _update, none without the attribute
CurItems(k) == IF k \in DOMAIN obj.attrs THEN Range(obj.attrs[k].l) ELSE {}

\* the desired items of key k
DesItems(k) == Range(params[k].l)

\* the running flush() went through _update and has computed cparams from
\* the object it read; obj is still that object
Diffed ==
    /\ kind = "unnamed" \/ state = "present"
    /\ \/ pc \in {"update_call", "refresh"}
       \/ /\ pc = "done" /\ result.status = "ok"
          /\ calls # <<>> /\ LastCall.op = "read"

\* once update/modify has been called, it was called with cparams
Written ==
    pc = "refresh" => (LastCall.op \in {"update", "modify"} /\ LastCall.args = cparams)

\* key k is in cparams exactly when a desired item is new, with the union
Additive(k) ==
    /\ k \in DOMAIN cparams <=> ~(DesItems(k) \subseteq CurItems(k))
    /\ k \in DOMAIN cparams =>
          /\ cparams[k].t = "list"
          /\ Range(cparams[k].l) = CurItems(k) \cup DesItems(k)

\* key k is in cparams exactly when the desired items are not the current
\* ones (or are some, when the object lacks the attribute), with the desired list
Replacing(k) ==
    /\ k \in DOMAIN cparams <=>
          IF k \in DOMAIN obj.attrs THEN DesItems(k) # CurItems(k) ELSE DesItems(k) # {}
    /\ k \in DOMAIN cparams => cparams[k] = params[k]

\* key k is in cparams exactly when a desired item is current, with the difference
Subtractive(k) ==
    /\ k \in DOMAIN cparams <=> DesItems(k) \cap CurItems(k) # {}
    /\ k \in DOMAIN cparams =>
          /\ cparams[k].t = "list"
          /\ Range(cparams[k].l) = CurItems(k) \ DesItems(k)

\* C1 (as claimed; SpecQuiet): state present, no check mode, nobody else
\* changes the object, params holds every required key: when the first
\* flush() returned changed=True, the second returns changed=False and makes
\* no create, update, modify, refresh or delete call.
C1_Idempotent ==
    (/\ pc = "done" /\ Len(history) = 1 /\ state = "present"
     /\ ~history[1].check_mode /\ ~check_mode
     /\ Complete
     /\ history[1].result = Changed(TRUE))
    => (result = Changed(FALSE) /\ OpsOf(calls) \subseteq {"exists", "read"})

AbsentDecided ==
    /\ state = "absent"
    /\ \/ pc \in {"update_call", "refresh", "delete_call", "delete_verify"}
       \/ /\ pc = "done" /\ result.status = "ok"
          /\ calls # <<>> /\ LastCall.op = "read"

C4_DryRunSafe ==
    /\ check_mode => OpsOf(calls) \subseteq {"exists", "read"}
    /\ \A i \in DOMAIN history :
          history[i].check_mode => OpsOf(history[i].calls) \subseteq {"exists", "read"}

\* C4 witness: a flush() in check mode has returned changed=True after the
\* existence probe and the read.
C4_Witness ==
    /\ check_mode /\ pc = "done" /\ result = Changed(TRUE)
    /\ OpsOf(calls) = {"exists", "read"}

\* sequence a is the beginning of sequence b
IsPrefix(a, b) == Len(a) <= Len(b) /\ SubSeq(b, 1, Len(a)) = a

\* the primitives of a sequence of remote calls, in the order of the calls
OpSeq(cs) == [i \in DOMAIN cs |-> cs[i].op]

\* a flush() in check mode, then the same flush() without check mode, both
\* finished; nobody else touched the object, and the remote system answered
\* the calls the two runs share in the same way
DryThenReal ==
    /\ pc = "done" /\ Len(history) = 1
    /\ history[1].check_mode /\ ~check_mode
    /\ externals = MaxExternal
    /\ IsPrefix(history[1].calls, calls)

\* C5 (as claimed; Spec): a flush() in check mode has the outcome (changed
\* value or error) of the flush() without check mode run from the same
\* remote state.
C5_DryRunAccurate == DryThenReal => result = history[1].result

\* C5 (amended; Spec): the two outcomes are the same, unless the dry run
\* returned changed=True and the real run failed in a call the dry run did
\* not make (create, update, modify, delete, refresh or the existence
\* re-check).
C5_DryRunAccurateUpToWrites ==
    DryThenReal =>
        \/ result = history[1].result
        \/ /\ history[1].result = Changed(TRUE)
           /\ result.status = "error"
           /\ Len(calls) > Len(history[1].calls)

\* C5 witness: the dry run and the real run both returned changed=True, and
\* the real run made a mutating call.
C5_Witness ==
    /\ DryThenReal
    /\ history[1].result = Changed(TRUE) /\ result = Changed(TRUE)
    /\ OpsOf(calls) \cap Mutating # {}

\* C6 (SpecQuiet): the keys of the ChangeSet, and of the arguments of every
\* update or modify call, are keys of params (with a value other than None
\* for the ChangeSet), whatever the object holds under other keys.
C6_PartialUpdate ==
    /\ DOMAIN cparams \subseteq {k \in DOMAIN params : params[k] # None}
    /\ \A i \in DOMAIN calls :
          calls[i].op \in {"update", "modify"} =>
              DOMAIN calls[i].args \subseteq DOMAIN params

\* C6 witness: update or modify was called on an object that has a
\* description while params has none, and the description was not sent.
C6_Witness ==
    /\ pc = "refresh" /\ LastCall.op \in {"update", "modify"}
    /\ "description" \notin DOMAIN params
    /\ "description" \in DOMAIN obj.attrs
    /\ "description" \notin DOMAIN LastCall.args

\* the existence probe of a named object's flush() returned b
ProbeReturned(b) ==
    /\ kind = "named" /\ calls # <<>>
    /\ calls[1].op = "exists" /\ calls[1].outcome # "Exception"
    /\ calls[1].found = b

\* no remote call of the running flush() raised out of it (an HTTPError of
\* an existence check is caught by _exists and counts as False)
NoCallRaised ==
    \A i \in DOMAIN calls :
        \/ calls[i].outcome = "ok"
        \/ calls[i].op = "exists" /\ calls[i].outcome = "HTTPError"

\* C7 (Spec): state present, the probe returned False and some required
\* create param is not a key of params: flush() fails with the missing
\* create params error naming every missing key, and nothing was called
\* after the probe, in check mode or not; that error is raised in no other
\* case.
C7_MissingCreateParams ==
    /\ (/\ pc = "done" /\ state = "present" /\ ProbeReturned(FALSE)
        /\ ~(required_create_params \subseteq DOMAIN params))
       => /\ result = Error("MissingCreateParams",
                            required_create_params \ DOMAIN params)
          /\ OpSeq(calls) = <<"exists">>
    /\ result.error = "MissingCreateParams"
       => (state = "present" /\ ProbeReturned(FALSE))

\* C7 witness: the error names two missing keys.
C7_Witness ==
    /\ pc = "done" /\ result.error = "MissingCreateParams"
    /\ Cardinality(result.missing) >= 2
    /\ "create" \notin OpsOf(calls)

\* C8 (Spec): state absent, no check mode, the probe returned True, the load
\* params are there and no call raised: the calls are exists, read, delete,
\* exists in that order; flush() fails with the delete verification error
\* when the re-check returned True and returns changed=True otherwise.
C8_DeleteScenario ==
    (/\ pc = "done" /\ state = "absent" /\ ~check_mode
     /\ ProbeReturned(TRUE) /\ NoCallRaised
     /\ required_load_params \subseteq DOMAIN params)
    => /\ OpSeq(calls) = <<"exists", "read", "delete", "exists">>
       /\ IF calls[4].found THEN result = Error("DeleteFailed", {})
                            ELSE result = Changed(TRUE)

\* C8 witness: the object came back between the delete and the re-check, and
\* flush() failed with the delete verification error.
C8_Witness ==
    /\ pc = "done" /\ state = "absent" /\ ~check_mode
    /\ ProbeReturned(TRUE) /\ NoCallRaised
    /\ OpSeq(calls) = <<"exists", "read", "delete", "exists">>
    /\ result = Error("DeleteFailed", {})

\* the current value equals the desired one after normalization: a string
\* once stripped, a list as a set of items, anything else as it is
NormalizedEq(cur, des) ==
    CASE des.t = "str"  -> cur.t = "str" /\ strip(cur.s) = des.s
      [] des.t = "list" -> cur.t = "list" /\ Range(cur.l) = Range(des.l)
      [] OTHER          -> cur = des

\* attrs has, after normalization, the desired value of every key of params
\* whose value is not None
UpToDate(attrs) ==
    \A k \in DOMAIN params :
        params[k] # None =>
            (k \in DOMAIN attrs /\ NormalizedEq(attrs[k], params[k]))

\* _update has read an object that is up to date, and the update params are
\* there
NoOpCase ==
    /\ state = "present" /\ calls # <<>>
    /\ LastCall.op = "read" /\ LastCall.outcome = "ok"
    /\ required_update_params \subseteq DOMAIN params
    /\ UpToDate(obj.attrs)

C10_CreateScenario ==
    /\ (/\ pc = "done" /\ state = "present" /\ ~check_mode
        /\ ProbeReturned(FALSE) /\ NoCallRaised
        /\ required_create_params \subseteq DOMAIN params)
       => /\ OpSeq(calls) = <<"exists", "create", "exists">>
          /\ IF calls[3].found THEN result = Changed(TRUE)
                               ELSE result = Error("CreateFailed", {})
    /\ Cardinality({i \in DOMAIN calls : calls[i].op = "create"}) <= 1

\* C10 witness: the object was gone again at the re-check, and flush() failed
\* with the create verification error after a single create.
C10_Witness ==
    /\ pc = "done" /\ state = "present" /\ ~check_mode
    /\ ProbeReturned(FALSE) /\ NoCallRaised
    /\ OpSeq(calls) = <<"exists", "create", "exists">>
    /\ result = Error("CreateFailed", {})

\* C11 (Spec): state absent on a named object and the probe returned False
\* (the object is not there, or the probe failed with an HTTPError): flush()
\* has returned changed=False and the probe is the only remote call, in check
\* mode or not.
C11_AbsentNoOp ==
    (state = "absent" /\ ProbeReturned(FALSE))
    => (pc = "done" /\ result = Changed(FALSE) /\ OpSeq(calls) = <<"exists">>)

\* C11 witness: the object is not there, the probe answered False and
\* flush() returned changed=False.
C11_Witness ==
    /\ state = "absent" /\ ProbeReturned(FALSE) /\ calls[1].outcome = "ok"
    /\ pc = "done" /\ result = Changed(FALSE) /\ ~remote.exists

\* the primitives flush() may call on an unnamed object
UnnamedOps == {"read", "update", "modify", "refresh"}

\* C12 (Spec): on an unnamed object no flush(), under present or absent,
\* first or repeated, calls anything but read, update, modify and refresh;
\* _create and _delete called on it raise their "does not support" error
\* with no remote call made.
C12_Unnamed ==
    kind = "unnamed" =>
        /\ OpsOf(calls) \subseteq UnnamedOps
        /\ \A i \in DOMAIN history : OpsOf(history[i].calls) \subseteq UnnamedOps
        /\ (pc = "done" /\ request = "_create")
              => (result = Error("DoesNotSupportCreate", {}) /\ calls = <<>>)
        /\ (pc = "done" /\ request = "_delete")
              => (result = Error("DoesNotSupportDelete", {}) /\ calls = <<>>)

\* C12 witness: a second flush() with state absent on an unnamed object has
\* returned, the first one having updated and refreshed the object.
C12_Witness ==
    /\ kind = "unnamed" /\ request = "flush" /\ state = "absent"
    /\ Len(history) = 1 /\ "refresh" \in OpsOf(history[1].calls)
    /\ pc = "done" /\ result.status = "ok"

\* C13 (Spec): an existence check of a named object that fails with an
\* HTTPError returns False and raises nothing; when that check is the probe
\* of a flush() with state present, the flush() goes on to _create and never
\* to _update (no read, update, modify or refresh).
C13_ProbeFailure ==
    kind = "named" =>
        /\ \A i \in DOMAIN calls :
              (calls[i].op = "exists" /\ calls[i].outcome = "HTTPError")
                  => ~calls[i].found
        /\ (calls # <<>> /\ LastCall.op = "exists" /\ LastCall.outcome = "HTTPError")
              => result.error # "HTTPError"
        /\ (calls # <<>> /\ calls[1].outcome = "HTTPError" /\ state = "present")
              => /\ pc \in {"create", "create_verify", "done"}
                 /\ OpsOf(calls) \subseteq {"exists", "create"}

\* C13 witness: the object exists, the probe failed with an HTTPError and
\* create was called.
C13_Witness ==
    /\ kind = "named" /\ state = "present" /\ Len(calls) >= 2
    /\ calls[1].op = "exists" /\ calls[1].outcome = "HTTPError"
    /\ calls[2].op = "create" /\ remote.exists

\* remote call i of the running flush() failed and the failure was not the
\* HTTPError of an existence check
RemoteFailure(i) ==
    /\ calls[i].outcome # "ok"
    /\ ~(calls[i].op = "exists" /\ calls[i].outcome = "HTTPError")

\* C14 (as claimed; Spec): a failure of a remote call, other than the
\* HTTPError of an existence check, ends flush() with one error of the
\* library's error class, raised in place of the underlying one.
C14_Wrapped ==
    \A i \in DOMAIN calls :
        RemoteFailure(i) =>
            /\ i = Len(calls) /\ pc = "done"
            /\ result.status = "error"
            /\ ErrorClass(result.error) = LibraryError

\* C14 (amended; Spec): such a failure ends flush() with the underlying
\* error itself: the call is the last one and what the caller gets is the
\* exception the remote call raised, of its own class, with nothing around it.
C14_Propagated ==
    \A i \in DOMAIN calls :
        RemoteFailure(i) =>
            /\ i = Len(calls) /\ pc = "done"
            /\ result = Error(calls[i].outcome, {})
            /\ ErrorClass(result.error) = calls[i].outcome

\* C14 witness: the refresh after an update failed and flush() ended with
\* that exception.
C14_Witness ==
    /\ calls # <<>> /\ LastCall.op = "refresh" /\ LastCall.outcome = "Exception"
    /\ pc = "done" /\ result = Error("Exception", {})

\* no call that failed is followed by a call of the same primitive
NoRetry ==
    \A i \in 1..(Len(calls) - 1) :
        calls[i].outcome # "ok" => calls[i + 1].op # calls[i].op

\* C15 (SpecLive): every call of flush() (or of _create / _delete on an
\* unnamed object), whatever the target state, the check mode and the way the
\* remote calls end, reaches its return or its raise; it makes at most 4
\* remote calls and none of them repeats a call that has just failed.
C15_Terminates ==
    /\ [](Len(calls) <= 4 /\ NoRetry)
    /\ (pc # "done") ~> (pc = "done")

\* C15 witness: a flush() ended at its fourth remote call, which failed.
C15_Witness ==
    /\ pc = "done" /\ Len(calls) = 4
    /\ LastCall.outcome # "ok" /\ result.status = "error"

\* C16 (SpecConnect): mgmt_root makes at most N connection
\* attempts, N the retry budget (3 for BIG-IP, f5_retries or 3 for
\* iWorkflow); it returns the session at the first attempt that succeeds and
\* makes no other; it raises only after N failed attempts, with the host,
\* the port and the text of the last exception in the message.
C16_BoundedRetry ==
    LET N == IF provider.product = "iworkflow" /\ provider.has_retries
             THEN provider.f5_retries ELSE 3
    IN  /\ Len(attempts) <= N
        /\ \A i \in 1..(Len(attempts) - 1) : attempts[i] # "ok"
        /\ mgmt_root.status = "session" <=>
              (attempts # <<>> /\ attempts[Len(attempts)] = "ok")
        /\ mgmt_root.status = "error" =>
              /\ Len(attempts) = N
              /\ \A i \in 1..N : attempts[i] # "ok"
              /\ mgmt_root.host = provider.f5_hostname
              /\ mgmt_root.port = provider.f5_port
              /\ Len(mgmt_root.texts) = 1
              /\ mgmt_root.texts[1] = attempts[Len(attempts)]

\* a path without the separators at its two ends
Trimmed(p) ==
    LET inner == {i \in DOMAIN p : p[i] # "/"} IN
    IF inner = {} THEN <<>>
    ELSE SubSeq(p, CHOOSE i \in inner : \A j \in inner : i <= j,
                   CHOOSE i \in inner : \A j \in inner : i >= j)

\* the segments of a path after trimming: none for an empty path or a path of
\* separators only
Segments(p) == IF Trimmed(p) = <<>> THEN <<>> ELSE split(Trimmed(p))

\* a path of 1 to 3 segments, none of them empty
WellFormed(p) ==
    /\ Len(Segments(p)) \in 1..3
    /\ \A i \in DOMAIN Segments(p) : Segments(p)[i] # <<>>

\* the identity a well-formed path stands for
IdentityOf(p) ==
    LET seg == Segments(p) IN
    CASE Len(seg) = 1 ->
            IF "partition" \in DOMAIN params /\ params["partition"] # None
            THEN [name |-> Str(seg[1]), partition |-> params["partition"]]
            ELSE [name |-> Str(seg[1])]
      [] Len(seg) = 2 -> [partition |-> Str(seg[1]), name |-> Str(seg[2])]
      [] Len(seg) = 3 -> [partition |-> Str(seg[1]), subPath |-> Str(seg[2]),
                          name |-> Str(seg[3])]

\* C17 (SpecPath): for a path of 1, 2 or 3 segments the resolver returns
\* name (with the ambient partition when there is one), partition/name,
\* partition/subPath/name; being a function of the path and of the ambient
\* partition, it returns the same identity every time.
C17_IdentityFromPath ==
    (res_id_args # NoIdentity /\ WellFormed(path))
    => res_id_args = [status |-> "ok", args |-> IdentityOf(path)]

\* C18 (SpecPath): a path that has, after trimming, no segment, 4 segments or
\* more, or an empty segment is refused with the invalid resource id error;
\* every identity returned has a name that is not empty.
C18_InvalidIdentity ==
    res_id_args # NoIdentity =>
        /\ ~WellFormed(path) => res_id_args.status = "error"
        /\ res_id_args.status = "ok" => res_id_args.args["name"] # Str(<<>>)

\* C19 (SpecValue): convert and format_value return what they are given when
\* they are given what they returned, for strings, lists and sets of
\* scalars, dicts (nested too) and other scalars.
C19_NormalizeIdempotent ==
    Len(normalized) = 2 => normalized[2] = normalized[1]

\* C19 witness: the value was changed by the first call (a padded string, a
\* list, a dict with padded keys or values) and not by the second.
C19_Witness ==
    /\ Len(normalized) = 2
    /\ normalized[1] # data
    /\ data.t = "dict" \/ data.t = "list"
    /\ normalized[2] = normalized[1]

\* the keys of params whose desired value is a scalar other than None
ScalarKeys == {k \in DOMAIN params : params[k] # None /\ params[k].t # "list"}

\* a scalar once normalized: a string stripped, anything else as it is
NormalizedScalar(v) == IF v.t = "str" THEN Str(strip(v.s)) ELSE v

\* C20 (SpecQuiet): in the update path a scalar key with a desired value
\* other than None is in the ChangeSet exactly when the normalized desired
\* value is not the normalized current one, an attribute the object lacks
\* being different from every desired value (the empty string too).
C20_ScalarDiff ==
    Diffed =>
        \A k \in ScalarKeys :
            k \in DOMAIN cparams <=>
                \/ k \notin DOMAIN obj.attrs
                \/ NormalizedScalar(params[k]) # NormalizedScalar(obj.attrs[k])

\* a flush() with state present of a named object, without check mode, whose
\* probe returned True: the update path
UpdatePath ==
    /\ kind = "named" /\ state = "present" /\ ~check_mode
    /\ request = "flush" /\ ProbeReturned(TRUE)

\* the remote calls of the update path, in order
UpdateOrder == <<"exists", "read", UpdateMethod, "refresh">>

\* C21 (Spec): in the update path the remote calls are made one after the
\* other in the order exists, read, update (or modify), refresh, none of them
\* twice; with a ChangeSet that is not empty a flush() that returns has made
\* the four of them, and changed=True is returned only once the refresh has
\* returned.
C21_UpdateOrder ==
    UpdatePath =>
        /\ IsPrefix(OpSeq(calls), UpdateOrder)
        /\ (pc = "done" /\ result.status = "ok" /\ cparams # EmptyDict)
              => (OpSeq(calls) = UpdateOrder /\ result = Changed(TRUE))
        /\ result = Changed(TRUE)
              => (/\ Len(calls) = 4 /\ LastCall.op = "refresh"
                  /\ LastCall.outcome = "ok" /\ cparams # EmptyDict)

\* C21 witness: flush() returned changed=True after exists, read, modify and
\* refresh, each of which answered.
C21_Witness ==
    /\ UpdatePath /\ pc = "done" /\ result = Changed(TRUE)
    /\ OpSeq(calls) = <<"exists", "read", "modify", "refresh">>
    /\ NoCallRaised

\* the ChangeSets _update computes from an object with the given attributes
ChangeSets(attrs) ==
    IF variant = "base" THEN {BaseCParams(attrs, params)}
    ELSE {BigipCParams(attrs, params, state, ord) : ord \in Orders}

\* this step makes the read of the running call, and the read answers
ReadNow ==
    /\ Len(calls') = Len(calls) + 1
    /\ calls'[Len(calls')].op = "read" /\ calls'[Len(calls')].outcome = "ok"

\* the running call has read the object, after its probe when it has one
ReadInCall ==
    \E i \in DOMAIN calls :
        /\ calls[i].op = "read" /\ calls[i].outcome = "ok"
        /\ kind = "named" => (i = 2 /\ calls[1].op = "exists")

\* the running call is in _update and not in _delete
InUpdate == kind = "unnamed" \/ state = "present"

\* C22 (Spec): across calls of flush() and changes made by others, a call
\* that is about to update, modify or delete has read the object itself,
\* after its probe; the object it holds is the remote object as it was at
\* that read, the ChangeSet is the diff of the parameters with that object,
\* and both stay as they are until the write.
C22_NoStaleSnapshot ==
    /\ [](pc \in {"update_call", "refresh", "delete_call", "delete_verify"}
             => (ReadInCall /\ obj.loaded))
    /\ [][/\ ReadNow => obj' = Loaded(remote.attrs)
          /\ (ReadNow /\ InUpdate /\ (pc' = "update_call" \/ result'.status = "ok"))
                => /\ cparams' \in ChangeSets(remote.attrs)
                   /\ pc' = "update_call" <=> (cparams' # EmptyDict /\ ~check_mode)
          /\ pc \in {"update_call", "delete_call"} => obj' = obj /\ cparams' = cparams
          /\ (pc = "update_call" /\ calls' # calls)
                => calls'[Len(calls')].args = cparams]_vars

\* C22 witness: a second flush() is about to update; another actor changed
\* the object after the first flush() read it, and the object held is the
\* one the second flush() read, not the one the first left.
C22_Witness ==
    /\ Len(history) = 1 /\ pc = "update_call" /\ ReadInCall
    /\ \E i \in DOMAIN history[1].calls : history[1].calls[i].op = "read"
    /\ externals < history[1].externals
    /\ obj = Loaded(remote.attrs)
    /\ "description" \in DOMAIN obj.attrs /\ obj.attrs["description"] = Str(<<"b">>)

\* the errors of the required-params checks
MissingErrors == {"MissingCreateParams", "MissingLoadParams", "MissingUpdateParams"}

\* C23 (Spec): a call that failed (a remote call raised out of it, a
\* required-params check or a create / delete verification failed) has
\* ended with one error at the step that failed: the failed remote call is
\* its last one, a failed check comes before any write, a failed
\* verification is followed by no delete, create or other call, and once the
\* error is raised the engine calls nothing and writes nothing for that call.
C23_ErrorsTerminal ==
    /\ [](/\ \A i \in DOMAIN calls :
                RemoteFailure(i) =>
                    (i = Len(calls) /\ pc = "done" /\ result.status = "error")
          /\ result.status = "error" =>
                /\ pc = "done" /\ ~result.changed
                /\ result.error \in MissingErrors
                      => (OpsOf(calls) \subseteq {"exists", "read"} /\ NoCallRaised)
                /\ result.error = "CreateFailed"
                      => OpSeq(calls) = <<"exists", "create", "exists">>
                /\ result.error = "DeleteFailed"
                      => OpSeq(calls) = <<"exists", "read", "delete", "exists">>
                /\ result.error \in Outcomes
                      => (calls # <<>> /\ LastCall.outcome = result.error))
    /\ [][result.status = "error"
             => /\ remote' = remote
                /\ calls' = calls \/ (pc' = "start" /\ calls' = <<>>)]_vars

\* C23 witness: create answered, the re-check failed with an HTTPError, and
\* flush() ended with the create verification error; the object it created
\* is still there.
C23_Witness ==
    /\ pc = "done" /\ result = Error("CreateFailed", {})
    /\ OpSeq(calls) = <<"exists", "create", "exists">>
    /\ calls[2].outcome = "ok" /\ calls[3].outcome = "HTTPError"
    /\ remote.exists

\* _update of the running call has read the object
UpdateHasRead ==
    /\ InUpdate /\ request = "flush"
    /\ \E i \in DOMAIN calls : calls[i].op = "read" /\ calls[i].outcome = "ok"

\* C24 (Spec): in the update path, once the object is read, a required
\* update param that is not a key of params ends the call with the missing
\* update params error naming every missing key, the read being the last
\* remote call, in check mode or not; that error is raised only after the
\* read, and no call with a missing update param makes an update or modify
\* call.
C24_MissingUpdateParams ==
    /\ (UpdateHasRead /\ ~(required_update_params \subseteq DOMAIN params))
          => /\ pc = "done"
             /\ result = Error("MissingUpdateParams",
                               required_update_params \ DOMAIN params)
             /\ LastCall.op = "read"
    /\ result.error = "MissingUpdateParams" => UpdateHasRead
    /\ ~(required_update_params \subseteq DOMAIN params)
          => OpsOf(calls) \cap {"update", "modify"} = {}

\* C24 witness: a flush() in check mode on a named object failed with the
\* missing update params error after the probe and the read.
C24_Witness ==
    /\ kind = "named" /\ check_mode /\ pc = "done"
    /\ result = Error("MissingUpdateParams", {"description"})
    /\ OpSeq(calls) = <<"exists", "read">>

\* the entries of the table given to __init__
Entries == IF TR \in DOMAIN kwargs THEN Range(kwargs[TR].items) ELSE {}

\* the names the table names, as a key or as a target
NamedInTable == {e.k.s : e \in Entries} \cup {e.v.s : e \in Entries}

\* C25 (SpecConstruct): once __init__ has returned, for every entry k -> v
\* of the table with k among the keyword arguments, the converted name of v
\* is a key of params with the value k had and the converted name of k is
\* not; a parameter the table does not name is in params with its value
\* under its converted name; 'tr' is not a key of params.
C25_Translation ==
    constructed = "ok" =>
        /\ \A e \in Entries :
              e.k.s \in DOMAIN kwargs =>
                  /\ snake_to_camel(e.v.s) \in DOMAIN params
                  /\ params[snake_to_camel(e.v.s)] = kwargs[e.k.s]
                  /\ snake_to_camel(e.k.s) \notin DOMAIN params
        /\ \A n \in DOMAIN kwargs \ ({TR} \cup NamedInTable) :
              /\ snake_to_camel(n) \in DOMAIN params
              /\ params[snake_to_camel(n)] = kwargs[n]
        /\ TR \notin DOMAIN params

\* the probe of caller c answered that the object is not there
ProbedAbsent(c) ==
    /\ Of(c).calls # <<>>
    /\ Of(c).calls[1].op = "exists" /\ Of(c).calls[1].outcome = "ok"
    /\ ~Of(c).calls[1].found

\* caller c has called create
CalledCreate(c) ==
    /\ Len(Of(c).calls) >= 2
    /\ Of(c).calls[2].op = "create"
    /\ Of(c).calls[2].args = CreateParams(Of(c).params)

\* two callers run flush() with state present, without check mode, on a
\* named object, with their create params
CreateRace ==
    /\ kind = "named" /\ state = "present" /\ ~check_mode
    /\ \A c \in {1, 2} : required_create_params \subseteq DOMAIN Of(c).params

\* C26 (SpecRace): of two callers that run flush() with state present on the
\* same identity, each one whose probe answered that the object is not there
\* goes on to _create and calls create with its own params, whatever the
\* other caller has done in between: nothing in the engine makes one wait
\* for the other or look again before creating. (The witness is the run
\* where both probes answer before either create and both creates are made.)
C26_NoMutualExclusion ==
    CreateRace =>
        \A c \in {1, 2} :
            ProbedAbsent(c) =>
                /\ Of(c).pc \in {"create", "create_verify", "done"}
                /\ Of(c).pc # "create" => CalledCreate(c)

\* C26 witness: both probes answered that the object is not there, and both
\* callers have called create for the identity; the first create answered
\* and the object exists.
C26_Witness ==
    /\ CreateRace
    /\ \A c \in {1, 2} : ProbedAbsent(c) /\ CalledCreate(c)
    /\ \E c \in {1, 2} : Of(c).calls[2].outcome = "ok"
    /\ remote.exists

\* the running caller's update or modify call is answered in this step,
\* after the other caller's, which has not refreshed yet; both callers hold
\* the same object, read before either wrote, and both write the members
LaterWrite ==
    /\ state = "present"
    /\ caller' = caller /\ pc = "update_call" /\ pc' = "refresh"
    /\ peer.pc = "refresh" /\ peer.obj = obj
    /\ "members" \in DOMAIN cparams /\ "members" \in DOMAIN peer.cparams

\* the items the other caller wants
PeerItems == Range(peer.params["members"].l)

\* both callers have returned from a flush() that updated and refreshed
BothUpdated ==
    /\ state = "present"
    /\ \A c \in {1, 2} :
          /\ Of(c).pc = "done"
          /\ \E i \in DOMAIN Of(c).calls :
                /\ Of(c).calls[i].op \in {"update", "modify"}
                /\ Of(c).calls[i].outcome = "ok"
          /\ Of(c).calls[Len(Of(c).calls)] = Call("refresh", EmptyDict, "ok", FALSE)

MutatingCalls(cs) == {i \in DOMAIN cs : cs[i].op \in Mutating}
MutatingReturned(cs) == {i \in MutatingCalls(cs) : cs[i].outcome = "ok"}

\* a flush() that returned res after the calls cs reports what it did
FlagMatches(res, cs) ==
    /\ res.changed <=> Cardinality(MutatingReturned(cs)) = 1
    /\ res.changed => Cardinality(MutatingCalls(cs)) = 1
    /\ ~res.changed => MutatingCalls(cs) = {}

\* C28 (Spec): a flush() without check mode that returns, whatever the
\* target state, the object class and the remote object, returns
\* changed=True exactly when one create, update, modify or delete call was
\* made and returned, no other mutating call being made, and changed=False
\* only when no mutating call was made.
C28_ChangedFlag ==
    /\ (pc = "done" /\ ~check_mode /\ request = "flush" /\ result.status = "ok")
          => FlagMatches(result, calls)
    /\ \A i \in DOMAIN history :
          (~history[i].check_mode /\ request = "flush"
           /\ history[i].result.status = "ok")
              => FlagMatches(history[i].result, history[i].calls)

\* C28 witness: a second flush() returned changed=False without a mutating
\* call, after a first that returned changed=True having deleted the object.
C28_Witness ==
    /\ pc = "done" /\ ~check_mode /\ Len(history) = 1 /\ ~history[1].check_mode
    /\ history[1].result = Changed(TRUE)
    /\ OpsOf(history[1].calls) \cap Mutating = {"delete"}
    /\ result = Changed(FALSE) /\ OpsOf(calls) \cap Mutating = {}

\* C29 (Spec): a flush() with state absent on a named object never returns
\* changed=False while the object is there, and without check mode it
\* returns changed=True only after a re-check that answered, and answered
\* that the object is gone.
C29_ProbeNeverHidesDeletion ==
    (kind = "named" /\ state = "absent" /\ pc = "done" /\ result.status = "ok")
    => /\ ~result.changed => ~remote.exists
       /\ (result.changed /\ ~check_mode)
             => (/\ LastCall.op = "exists" /\ LastCall.outcome = "ok"
                 /\ ~LastCall.found)

\* C30 (SpecQuiet): every create call is made with every required create
\* param among its arguments, with a value other than None, and with no
\* argument whose value is None.
C30_RequiredReachCreate ==
    \A i \in DOMAIN calls :
        calls[i].op = "create" =>
            /\ \A k \in required_create_params :
                  k \in DOMAIN calls[i].args /\ calls[i].args[k] # None
            /\ \A k \in DOMAIN calls[i].args : calls[i].args[k] # None

=============================================================================
